---- MODULE Spec2Model ----
(***************************************************************************)
(* The RSS endpoint of the blog: src/pages/rss.xml.ts, GET(context).       *)
(*                                                                         *)
(* GET awaits the content collection "blog" (passing the predicate         *)
(* data.draft !== true), sorts the returned array in place by pubDate      *)
(* descending, maps every post to a feed item and hands the feed options   *)
(* to rss().  Each invocation of GET is a process with one suspension      *)
(* point, the awaited collection read.                                     *)
(***************************************************************************)
EXTENDS Integers, Sequences, FiniteSets, TLC

\* ------------------------------------------------------------------ bounds
\* The largest number of content entries in the store.
MaxPosts == 3
\* The invocations of GET that may be in flight together.
Invocations == {1, 2}

\* ------------------------------------------------------- content entries
\* The slug of the k-th content file (slugs are unique: one per file).
SlugNames == <<"heat-map", "ingest-app", "physics-engine", "ci-cd", "notes">>

\* Frontmatter text of the k-th content file.  GET only copies these.
TitleOf(k) == "title of " \o SlugNames[k]
DescriptionOf(k) == "description of " \o SlugNames[k]
TagsOf(k) ==
    CASE k % 3 = 1 -> <<"Rust", "Physics">>
      [] k % 3 = 2 -> <<"Physics", "Rust">>
      [] OTHER     -> <<>>

\* A record with no field: what an absent optional field contributes.
NoField == [f \in {} |-> TRUE]

\* A Date object, by its time value.
DateOf(t) == [time |-> t]
\* GET only compares publication dates, so of the stores that order their
\* posts' dates alike one stands for all: the one whose time values are
\* 1..m.  MaxPosts posts have at most MaxPosts different dates.
Dates == {DateOf(t) : t \in 1..MaxPosts}

\* The pubDate field of a post's data: a Date, or absent when the store
\* breaks the required-field contract.
PubDateFields(trusted) ==
    {[pubDate |-> d] : d \in Dates} \cup (IF trusted THEN {} ELSE {NoField})

\* The draft field of a post's data: true, false or absent.
DraftFields == {[draft |-> TRUE], [draft |-> FALSE], NoField}

\* The k-th content entry with the given pubDate and draft fields.
Entry(k, pd, dr) ==
    [slug |-> SlugNames[k],
     data |-> [title |-> TitleOf(k), description |-> DescriptionOf(k),
               tags |-> TagsOf(k)] @@ pd @@ dr]

\* The time values of the chosen pubDate fields are 1..m for some m.
DatesDense(f) ==
    LET used == {f[k][1].pubDate.time :
                    k \in {j \in DOMAIN f : "pubDate" \in DOMAIN f[j][1]}}
    IN used = 1..Cardinality(used)

\* Every content store of at most MaxPosts entries, in the store's order.
Stores(trusted) ==
    UNION {
      {[k \in 1..n |-> Entry(k, f[k][1], f[k][2])] :
          f \in {g \in [1..n -> PubDateFields(trusted) \X DraftFields] :
                    DatesDense(g)}} :
      n \in 0..MaxPosts}

\* defineConfig({ site: ... }): the site the configuration declares.
ConfigSite == "https://blog.l3s.me"

\* The request contexts: context.site unset, empty, or a site URL.
Contexts ==
    {[url |-> "/rss.xml"],
     [url |-> "/rss.xml", site |-> ""],
     [url |-> "/rss.xml", site |-> "https://example.org"]}

\* ------------------------------------------------------------------ state
VARIABLES
    store,      \* the content store's entries of collection "blog", in order
    honours,    \* whether the store applies the predicate passed to the read
    pc,         \* pc[i]: where invocation i of GET is
    context,    \* context[i]: the APIContext invocation i was called with
    blog,       \* blog[i]: the array the read returned (sortedPosts aliases it)
    response,   \* response[i]: the feed rss() was given, once returned
    thrown,     \* thrown[i]: the exception invocation i ended with
    readOutcome,\* readOutcome[i]: how invocation i's collection read will end
    overlapped  \* history: two invocations were suspended at the await together

vars == <<store, honours, pc, context, blog, response, thrown, readOutcome,
          overlapped>>

\* The reasons a collection read can reject with.
ReadErrors == {"ContentReadTimeout", "UnknownCollectionError"}

NoContext == [url |-> "none"]
NoResponse == [none |-> TRUE]
NoError == "none"

\* --------------------------------------------------------- GET, in parts
\* The predicate inverted: it keeps exactly the drafts.
DraftFilterInverted(data) == "draft" \in DOMAIN data /\ data.draft = TRUE

\* The predicate testing for false: it drops posts with no draft field.
DraftFilterStrict(data) == "draft" \in DOMAIN data /\ data.draft = FALSE

\* ({ data }) => data.draft !== true
DraftFilter(data) == ~("draft" \in DOMAIN data /\ data.draft = TRUE)

\* getCollection("blog", filter): the entries the predicate keeps, in the
\* store's order, as a fresh array.  A store that does not honour the
\* predicate returns every entry.
getCollection(entries, applied) ==
    IF applied THEN SelectSeq(entries, LAMBDA e : DraftFilter(e.data))
    ELSE entries

HasPubDate(post) == "pubDate" \in DOMAIN post.data

\* Date.prototype.valueOf(): the time value.
valueOf(date) == date.time

\* The comparator with its operands swapped: oldest first.
CompareAscending(a, b) == valueOf(a.data.pubDate) - valueOf(b.data.pubDate)

\* (a, b) => b.data.pubDate.valueOf() - a.data.pubDate.valueOf()
Compare(a, b) == valueOf(b.data.pubDate) - valueOf(a.data.pubDate)

\* Stable insertion of e into the sorted s: after every x that the
\* comparator does not order after e.
RECURSIVE Insert(_, _)
Insert(s, e) ==
    IF s = <<>> THEN <<e>>
    ELSE IF Compare(Head(s), e) <= 0 THEN <<Head(s)>> \o Insert(Tail(s), e)
    ELSE <<e>> \o s

RECURSIVE SortPrefix(_, _)
SortPrefix(s, n) ==
    IF n = 0 THEN <<>> ELSE Insert(SortPrefix(s, n - 1), s[n])

\* An unstable sort: e goes before the elements it ties with.
RECURSIVE InsertBeforeTies(_, _)
InsertBeforeTies(s, e) ==
    IF s = <<>> THEN <<e>>
    ELSE IF Compare(Head(s), e) < 0
         THEN <<Head(s)>> \o InsertBeforeTies(Tail(s), e)
    ELSE <<e>> \o s

RECURSIVE SortPrefixUnstable(_, _)
SortPrefixUnstable(s, n) ==
    IF n = 0 THEN <<>>
    ELSE InsertBeforeTies(SortPrefixUnstable(s, n - 1), s[n])

ArraySortUnstable(s) == SortPrefixUnstable(s, Len(s))

\* Array.prototype.sort(comparator): a stable sort.
ArraySort(s) == SortPrefix(s, Len(s))

\* A builder that also reads the newest post's date: it throws on no posts.
SortThrowsOnEmpty(s) ==
    Len(s) = 0 \/ (Len(s) >= 2 /\ \E k \in 1..Len(s) : ~HasPubDate(s[k]))

\* The comparator reads pubDate.valueOf() of both arguments: a TypeError when
\* one has no pubDate.  sort calls it only on arrays of two or more elements,
\* and then at least once on every element.
SortThrows(s) == Len(s) >= 2 /\ \E k \in 1..Len(s) : ~HasPubDate(s[k])

\* `/blog/${post.slug}/`
Link(slug) == "/blog/" \o slug \o "/"

\* The item with the link's trailing slash forgotten.
ItemNoTrailingSlash(post) ==
    [title |-> post.data.title,
     description |-> post.data.description,
     link |-> "/blog/" \o post.slug,
     categories |-> post.data.tags]
    @@ (IF HasPubDate(post) THEN [pubDate |-> post.data.pubDate] ELSE NoField)

\* The item of a post.  An absent pubDate stays absent.
Item(post) ==
    [title |-> post.data.title,
     description |-> post.data.description,
     link |-> Link(post.slug),
     categories |-> post.data.tags]
    @@ (IF HasPubDate(post) THEN [pubDate |-> post.data.pubDate] ELSE NoField)

\* The map cut to the newest post.
ItemsLatestOnly(posts) ==
    [k \in 1..(IF Len(posts) = 0 THEN 0 ELSE 1) |-> Item(posts[k])]

\* sortedPosts.map(...)
Items(posts) == [k \in 1..Len(posts) |-> Item(posts[k])]

\* The site without the fallback: an unset site becomes the empty string.
SiteNoFallback(ctx) == IF "site" \in DOMAIN ctx THEN ctx.site ELSE ""

\* The fallback out of step with the site configuration.
SiteStaleFallback(ctx) ==
    IF "site" \in DOMAIN ctx /\ ctx.site # "" THEN ctx.site
    ELSE "https://l3s.me"

\* context.site || "https://blog.l3s.me"
Site(ctx) ==
    IF "site" \in DOMAIN ctx /\ ctx.site # "" THEN ctx.site
    ELSE "https://blog.l3s.me"

\* The feed handed to rss().
Feed(ctx, posts) ==
    [title |-> "Lucas William Bateson - Blog",
     description |-> "Personal blog and project log - thoughts on development, technology, and building things.",
     site |-> Site(ctx),
     items |-> Items(posts),
     customData |-> "<language>en-us</language>"]

\* ----------------------------------------------------------------- actions
\* GET(context) is called and suspends at the awaited getCollection.
Call(i) ==
    /\ pc[i] = "idle"
    /\ \E c \in Contexts : context' = [context EXCEPT ![i] = c]
    /\ pc' = [pc EXCEPT ![i] = "awaiting"]
    /\ overlapped' =
         (overlapped \/ \E j \in Invocations \ {i} : pc[j] = "awaiting")
    /\ UNCHANGED <<store, honours, blog, response, thrown, readOutcome>>

\* The await wrapped in a catch that goes on with no posts.
ResolveSwallowing(i) ==
    /\ pc[i] = "awaiting"
    /\ blog' = [blog EXCEPT ![i] =
                  IF readOutcome[i] = "ok" THEN getCollection(store, honours)
                  ELSE <<>>]
    /\ pc' = [pc EXCEPT ![i] = "resumed"]
    /\ UNCHANGED <<store, honours, context, response, thrown, readOutcome,
                   overlapped>>

\* The read pushed onto one module-level array that every invocation uses.
ResolveShared(i) ==
    /\ pc[i] = "awaiting"
    /\ IF readOutcome[i] = "ok"
       THEN /\ blog' = [j \in Invocations |->
                          blog[i] \o getCollection(store, honours)]
            /\ pc' = [pc EXCEPT ![i] = "resumed"]
            /\ UNCHANGED thrown
       ELSE /\ thrown' = [thrown EXCEPT ![i] = readOutcome[i]]
            /\ pc' = [pc EXCEPT ![i] = "failed"]
            /\ UNCHANGED blog
    /\ UNCHANGED <<store, honours, context, response, readOutcome, overlapped>>

\* The awaited collection read settles.  Resolved: blog is bound to the
\* returned array.  Rejected: the await rethrows the reason and, with no
\* handler in GET, the invocation ends with it.
Resolve(i) ==
    /\ pc[i] = "awaiting"
    /\ IF readOutcome[i] = "ok"
       THEN /\ blog' = [blog EXCEPT ![i] = getCollection(store, honours)]
            /\ pc' = [pc EXCEPT ![i] = "resumed"]
            /\ UNCHANGED thrown
       ELSE /\ thrown' = [thrown EXCEPT ![i] = readOutcome[i]]
            /\ pc' = [pc EXCEPT ![i] = "failed"]
            /\ UNCHANGED blog
    /\ UNCHANGED <<store, honours, context, response, readOutcome, overlapped>>

\* The arrangements of s that are newest first, ties in any order.
Arrangements(s) ==
    {t \in {[k \in 1..Len(s) |-> s[p[k]]] : p \in Permutations(1..Len(s))} :
        \A j, k \in 1..Len(s) : j < k => Compare(t[j], t[k]) <= 0}

\* The rest of GET with a sort whose order of ties is arbitrary per call.
ContinueUnstable(i) ==
    /\ pc[i] = "resumed"
    /\ IF SortThrows(blog[i])
       THEN /\ thrown' = [thrown EXCEPT ![i] = "TypeError"]
            /\ pc' = [pc EXCEPT ![i] = "failed"]
            /\ UNCHANGED <<blog, response>>
       ELSE /\ \E t \in Arrangements(blog[i]) :
                  /\ blog' = [blog EXCEPT ![i] = t]
                  /\ response' = [response EXCEPT ![i] = Feed(context[i], t)]
            /\ pc' = [pc EXCEPT ![i] = "done"]
            /\ UNCHANGED thrown
    /\ UNCHANGED <<store, honours, context, readOutcome, overlapped>>

\* The rest of GET runs without suspension: blog.sort in place, map, rss().
Continue(i) ==
    /\ pc[i] = "resumed"
    /\ IF SortThrows(blog[i])
       THEN /\ thrown' = [thrown EXCEPT ![i] = "TypeError"]
            /\ pc' = [pc EXCEPT ![i] = "failed"]
            /\ UNCHANGED <<blog, response>>
       ELSE /\ blog' = [blog EXCEPT ![i] = ArraySort(blog[i])]
            /\ response' = [response EXCEPT ![i] = Feed(context[i], blog'[i])]
            /\ pc' = [pc EXCEPT ![i] = "done"]
            /\ UNCHANGED thrown
    /\ UNCHANGED <<store, honours, context, readOutcome, overlapped>>

InitCommon ==
    /\ pc = [i \in Invocations |-> "idle"]
    /\ context = [i \in Invocations |-> NoContext]
    /\ blog = [i \in Invocations |-> <<>>]
    /\ response = [i \in Invocations |-> NoResponse]
    /\ thrown = [i \in Invocations |-> NoError]
    /\ overlapped = FALSE

\* The content store keeps its contract: the predicate is applied and every
\* entry has a pubDate.
Init ==
    /\ store \in Stores(TRUE)
    /\ honours = TRUE
    /\ readOutcome = [i \in Invocations |-> "ok"]
    /\ InitCommon

\* The content store may break its contract: it may return entries the
\* predicate rejects, and entries without a pubDate.
InitUntrusted ==
    /\ store \in Stores(FALSE)
    /\ honours \in BOOLEAN
    /\ readOutcome = [i \in Invocations |-> "ok"]
    /\ InitCommon

\* The content store keeps its contract, but a collection read may reject.
InitReadFails ==
    /\ store \in Stores(TRUE)
    /\ honours = TRUE
    /\ readOutcome \in [Invocations -> {"ok"} \cup ReadErrors]
    /\ InitCommon

Next == \E i \in Invocations : Call(i) \/ Resolve(i) \/ Continue(i)

Spec == Init /\ [][Next]_vars

SpecUntrusted == InitUntrusted /\ [][Next]_vars

SpecReadFails == InitReadFails /\ [][Next]_vars

TypeOK ==
    /\ pc \in [Invocations -> {"idle", "awaiting", "resumed", "done", "failed"}]
    /\ honours \in BOOLEAN
    /\ \A i \in Invocations : thrown[i] \in {NoError, "TypeError"} \cup ReadErrors
    /\ readOutcome \in [Invocations -> {"ok"} \cup ReadErrors]
    /\ overlapped \in BOOLEAN

\* ------------------------------------------------------------- properties
Called(i) == pc[i] # "idle"
Returned(i) == pc[i] = "done"

\* The post's draft attribute is exactly true.
IsDraft(post) == "draft" \in DOMAIN post.data /\ post.data.draft = TRUE

\* The positions of the store's posts that are not drafts.
Published == {k \in 1..Len(store) : ~IsDraft(store[k])}

\* The positions in invocation i's feed of the entry linking to store[k].
EntriesOf(i, k) ==
    {j \in 1..Len(response[i].items) :
        response[i].items[j].link = "/blog/" \o store[k].slug \o "/"}

\* context.site is unset or the empty string.
SiteUnset(ctx) == "site" \notin DOMAIN ctx \/ ctx.site = ""

\* C1: with the store applying the predicate, no feed returned by GET holds an
\* entry of a post whose draft is true, whatever its date or tags.
NoDraftInFeed ==
    \A i \in Invocations : Returned(i) =>
        \A k \in 1..Len(store) : IsDraft(store[k]) => EntriesOf(i, k) = {}

\* C1 witness: a feed was returned from a store holding a draft that is newer
\* than a published post, and the published post is in the feed.
NoDraftInFeedWitness ==
    \E i \in Invocations : \E d, k \in 1..Len(store) :
        /\ Returned(i)
        /\ IsDraft(store[d]) /\ ~IsDraft(store[k])
        /\ valueOf(store[d].data.pubDate) > valueOf(store[k].data.pubDate)
        /\ store[d].data.tags # <<>>
        /\ EntriesOf(i, k) # {}

\* C2: in every returned feed an earlier entry's publication date is not
\* before a later entry's.
NewestFirst ==
    \A i \in Invocations : Returned(i) =>
        \A j, k \in 1..Len(response[i].items) : j < k =>
            valueOf(response[i].items[j].pubDate)
                >= valueOf(response[i].items[k].pubDate)

\* C2 witness: a feed of two or more entries was returned from a store whose
\* published posts came oldest first, so the sort had to move them.
NewestFirstWitness ==
    \E i \in Invocations : \E j, k \in Published :
        /\ Returned(i)
        /\ j < k
        /\ valueOf(store[j].data.pubDate) < valueOf(store[k].data.pubDate)
        /\ Len(response[i].items) >= 2

MissingDateAlwaysFails ==
    \A i \in Invocations :
        (\E k \in Published : ~HasPubDate(store[k])) => ~Returned(i)

\* C5: two published posts with the same publication date keep the store's
\* order in the entries of every returned feed.
StableTies ==
    \A i \in Invocations : Returned(i) =>
        \A x, y \in Published :
            (x < y /\ store[x].data.pubDate = store[y].data.pubDate) =>
                \E jx \in EntriesOf(i, x) : \E jy \in EntriesOf(i, y) : jx < jy

\* C5 witness: both invocations returned a feed from a store in which two
\* published posts tie and a newer published post stands between them.
StableTiesWitness ==
    /\ \A i \in Invocations : Returned(i)
    /\ \E x, m, y \in Published :
        /\ x < m /\ m < y
        /\ store[x].data.pubDate = store[y].data.pubDate
        /\ valueOf(store[m].data.pubDate) > valueOf(store[x].data.pubDate)

SuppliedArrayUnchanged ==
    \A i \in Invocations :
        pc[i] \in {"resumed", "done", "failed"} =>
            blog[i] = getCollection(store, honours)

\* C8: two invocations that returned with the same context, over the same
\* store, returned the same feed.
Idempotent ==
    \A i, j \in Invocations :
        (Returned(i) /\ Returned(j) /\ context[i] = context[j]) =>
            response[i] = response[j]

\* C8 witness: both invocations returned with the same context from a store
\* with two published posts that tie.
IdempotentWitness ==
    /\ \A i \in Invocations : Returned(i)
    /\ context[1] = context[2]
    /\ \E x, y \in Published :
        x < y /\ store[x].data.pubDate = store[y].data.pubDate

\* C9: with no published post in the store, an invocation does not fail, and
\* the feed it returns has no entries and the configured title, description,
\* site and language.
EmptyFeedReturned ==
    \A i \in Invocations : (Called(i) /\ Published = {}) =>
        /\ pc[i] # "failed"
        /\ thrown[i] = NoError
        /\ Returned(i) =>
            /\ response[i].items = <<>>
            /\ response[i].title = "Lucas William Bateson - Blog"
            /\ response[i].description = "Personal blog and project log - thoughts on development, technology, and building things."
            /\ response[i].site =
                 (IF SiteUnset(context[i]) THEN "https://blog.l3s.me"
                  ELSE context[i].site)
            /\ response[i].customData = "<language>en-us</language>"

\* C9 witness: one invocation returned from a store of drafts only.
EmptyFeedReturnedWitness ==
    \E i \in Invocations :
        /\ Returned(i)
        /\ Len(store) >= 2
        /\ Published = {}

\* C10: every entry of a returned feed is the projection of exactly one
\* published post: link "/blog/" + slug + "/", and that post's title,
\* description, pubDate and tags.
EntriesProjectPosts ==
    \A i \in Invocations : Returned(i) =>
        \A j \in 1..Len(response[i].items) :
            LET e == response[i].items[j]
                from == {k \in Published :
                            e.link = "/blog/" \o store[k].slug \o "/"}
            IN /\ Cardinality(from) = 1
               /\ \A k \in from :
                    /\ e.title = store[k].data.title
                    /\ e.description = store[k].data.description
                    /\ e.pubDate = store[k].data.pubDate
                    /\ e.categories = store[k].data.tags

\* C10 witness: a feed of two entries or more was returned, one of a post
\* with tags.
EntriesProjectPostsWitness ==
    \E i \in Invocations :
        /\ Returned(i)
        /\ Len(response[i].items) >= 2
        /\ \E j \in 1..Len(response[i].items) :
              Len(response[i].items[j].categories) = 2

\* C11: when an invocation's collection read rejects, the invocation ends
\* with the read's own reason and no feed, and stays ended: it never reads
\* again and never returns a feed.
ReadFailurePropagates ==
    /\ [](\A i \in Invocations :
            (readOutcome[i] # "ok" /\ pc[i] \notin {"idle", "awaiting"}) =>
                /\ pc[i] = "failed"
                /\ thrown[i] = readOutcome[i]
                /\ response[i] = NoResponse
                /\ blog[i] = <<>>)
    /\ [][\A i \in Invocations :
            pc[i] = "failed" =>
                /\ pc'[i] = "failed"
                /\ thrown'[i] = thrown[i]
                /\ response'[i] = NoResponse]_vars

\* C11 witness: one invocation's read rejected and the invocation ended with
\* that reason, over a store with published posts, while the other
\* invocation's read resolved and it returned a feed.
ReadFailurePropagatesWitness ==
    \E i, j \in Invocations :
        /\ readOutcome[i] = "ContentReadTimeout"
        /\ pc[i] = "failed" /\ thrown[i] = "ContentReadTimeout"
        /\ readOutcome[j] = "ok" /\ Returned(j)
        /\ Published # {}

\* C12: whatever the other invocation does meanwhile, an invocation holds
\* after its read exactly what the store returned, and the feed it returns is
\* the feed of a call run alone on the store with its context.
InvocationsIndependent ==
    \A i \in Invocations :
        /\ pc[i] = "resumed" => blog[i] = getCollection(store, honours)
        /\ Returned(i) =>
             response[i] =
                 Feed(context[i], ArraySort(getCollection(store, honours)))

\* C12 witness: both invocations returned, with different contexts, after
\* being suspended at the await together, over a store whose published posts
\* the sort had to reorder.
InvocationsIndependentWitness ==
    /\ overlapped
    /\ \A i \in Invocations : Returned(i)
    /\ context[1] # context[2]
    /\ \E j, k \in Published :
          j < k /\ valueOf(store[j].data.pubDate)
                      < valueOf(store[k].data.pubDate)

\* C13: the entries of a returned feed are a permutation of the published
\* posts: as many entries as published posts, and exactly one entry for each.
EntriesArePermutation ==
    \A i \in Invocations : Returned(i) =>
        /\ Len(response[i].items) = Cardinality(Published)
        /\ \A k \in Published : Cardinality(EntriesOf(i, k)) = 1

\* C13 witness: the store is A (oldest), B (newest), draft C (between), and
\* the returned feed is [B, A].
EntriesArePermutationWitness ==
    \E i \in Invocations :
        /\ Returned(i)
        /\ Len(store) = 3
        /\ ~IsDraft(store[1]) /\ valueOf(store[1].data.pubDate) = 1
        /\ ~IsDraft(store[2]) /\ valueOf(store[2].data.pubDate) = 3
        /\ IsDraft(store[3]) /\ valueOf(store[3].data.pubDate) = 2
        /\ Len(response[i].items) = 2
        /\ response[i].items[1].title = store[2].data.title
        /\ response[i].items[2].title = store[1].data.title

\* C14: a post whose draft is absent or false has an entry in every returned
\* feed.
UnflaggedPostsPublished ==
    \A i \in Invocations : Returned(i) =>
        \A k \in 1..Len(store) :
            ("draft" \notin DOMAIN store[k].data \/ store[k].data.draft = FALSE)
                => EntriesOf(i, k) # {}

\* C14 witness: a feed was returned from a store holding a post with no draft
\* field, a post with draft false and a post with draft true.
UnflaggedPostsPublishedWitness ==
    \E i \in Invocations : \E a, b, c \in 1..Len(store) :
        /\ Returned(i)
        /\ "draft" \notin DOMAIN store[a].data
        /\ "draft" \in DOMAIN store[b].data /\ store[b].data.draft = FALSE
        /\ IsDraft(store[c])
        /\ EntriesOf(i, a) # {}

\* C15: the site of every returned feed is not empty: it is context.site
\* when that is set (and not empty), and otherwise the site the configuration
\* declares.
SiteNeverEmpty ==
    \A i \in Invocations : Returned(i) =>
        /\ response[i].site # ""
        /\ response[i].site =
             (IF "site" \in DOMAIN context[i] /\ context[i].site # ""
              THEN context[i].site ELSE ConfigSite)

\* C15 witness: one invocation returned with context.site set and one with
\* context.site unset, the first with its own site and the second with the
\* configured one.
SiteNeverEmptyWitness ==
    \E i, j \in Invocations :
        /\ Returned(i) /\ "site" \in DOMAIN context[i]
        /\ response[i].site = "https://example.org"
        /\ Returned(j) /\ "site" \notin DOMAIN context[j]
        /\ response[j].site = ConfigSite

====
